---------------------------- MODULE Spec2Model ----------------------------
(***************************************************************************)
(* A model of the Concor rule engine of src/src/components/ConcorGame.tsx: *)
(* the card model, the meld classifier, the combination generator, the    *)
(* win evaluator, the deck builder and the table / turn state machine.    *)
(*                                                                         *)
(* A card token is the sequence of its characters, so "10S" is            *)
(* <<"1","0","S">> and parsing really slices it.  The four suit symbols   *)
(* of the source (spade, heart, diamond, club) are written "S", "H", "D", *)
(* "C".  JavaScript's null is the empty sequence: winner is <<>> or       *)
(* <<player>>, draggedCardIndex is <<>> or <<index>>.  Array indices are  *)
(* 0-based as in the source; At(a, i) reads a[i].                         *)
(***************************************************************************)
EXTENDS Integers, Sequences, FiniteSets, TLC

VARIABLES
  players,            \* useState<Player[]>: sequence of [id, cards]
  discardedCards,     \* useState<DiscardedCard[]>: sequence of [playerId, card]
  deck,               \* useState<string[]>
  currentPlayer,      \* useState(0): index into players
  draggedCardIndex,   \* useState<number | null>
  winner,             \* useState<Player | null>
  canDeclare,         \* useState(false)
  playersRef,         \* useRef(players)
  currentPlayerRef,   \* useRef(currentPlayer)
  last,               \* observation: the last command, its argument, whether it was accepted
  steps,              \* observation: number of commands accepted since the game started
  input,              \* argument of the pure function under evaluation
  output              \* <<>> before the evaluation, <<result>> after it

vars == <<players, discardedCards, deck, currentPlayer, draggedCardIndex, winner,
          canDeclare, playersRef, currentPlayerRef, last, steps, input, output>>

tableVars == <<players, discardedCards, deck, currentPlayer, draggedCardIndex,
               winner, canDeclare, playersRef, currentPlayerRef>>

-----------------------------------------------------------------------------
(* JavaScript array helpers *)

At(a, i) == a[i + 1]

InRange(a, i) == i >= 0 /\ i < Len(a)

Min(a, b) == IF a < b THEN a ELSE b

Max(a, b) == IF a > b THEN a ELSE b

\* a.slice(from) for from >= 0
SliceFrom(a, from) == SubSeq(a, from + 1, Len(a))

\* a.slice(0, to)
SliceTo(a, to) == SubSeq(a, 1, Min(to, Len(a)))

\* a.slice(-k) for k >= 1: the last k elements (all of them if k >= length)
SliceLast(a, k) == SubSeq(a, Max(Len(a) - k, 0) + 1, Len(a))

\* a.filter((_, i) => i !== idx)
RemoveAt(a, idx) == SubSeq(a, 1, idx) \o SubSeq(a, idx + 2, Len(a))

\* the array with the elements f[1], ..., f[n], as a tuple
ArrayOf(f) == SubSeq(f, 1, Len(f))

\* a.splice(idx, 0, x) on a copy
InsertAt(a, idx, x) == SubSeq(a, 1, Min(idx, Len(a))) \o <<x>> \o SubSeq(a, Min(idx, Len(a)) + 1, Len(a))

-----------------------------------------------------------------------------
(* Card model *)

SPADE == "S"
HEART == "H"
DIAMOND == "D"
CLUB == "C"

RANK_ORDER ==
  << <<"A">>, <<"2">>, <<"3">>, <<"4">>, <<"5">>, <<"6">>, <<"7">>, <<"8">>, <<"9">>,
     <<"1", "0">>, <<"J">>, <<"Q">>, <<"K">> >>

ACE == <<"A">>

\* CARD_VALUES[rank]: 'A': 1, '2': 2, ... 'K': 13
CARD_VALUES(rank) == CHOOSE v \in 1..13 : RANK_ORDER[v] = rank

\* mutant: only hearts are red
getCardColor_HeartsOnly(suit) == IF suit = HEART THEN "red" ELSE "black"

getCardColor(suit) == IF suit = HEART \/ suit = DIAMOND THEN "red" ELSE "black"

parseCard(cardStr) ==
  LET suit == cardStr[Len(cardStr)]
      rank == IF Len(cardStr) = 3 THEN <<"1", "0">> ELSE SubSeq(cardStr, 1, Len(cardStr) - 1)
  IN [original |-> cardStr,
      rank     |-> rank,
      suit     |-> suit,
      value    |-> CARD_VALUES(rank),
      color    |-> getCardColor(suit)]

-----------------------------------------------------------------------------
(* Meld classifier *)

\* mutant: a set asks for different suits instead of balanced colours
isSet_DistinctSuits(cards) ==
  /\ Len(cards) \in {3, 4}
  /\ \A i \in DOMAIN cards : cards[i].rank = cards[1].rank
  /\ \A i, j \in DOMAIN cards : i # j => cards[i].suit # cards[j].suit

isSet(cards) ==
  IF Len(cards) < 3 \/ Len(cards) > 4 THEN FALSE
  ELSE
    LET firstRank == cards[1].rank
        IsRed(c) == c.color = "red"
        IsBlack(c) == c.color = "black"
        redCount == Len(SelectSeq(cards, IsRed))
        blackCount == Len(SelectSeq(cards, IsBlack))
    IN IF ~(\A i \in DOMAIN cards : cards[i].rank = firstRank) THEN FALSE
       ELSE IF Len(cards) = 3
         THEN (redCount = 2 /\ blackCount = 1) \/ (redCount = 1 /\ blackCount = 2)
       ELSE IF Len(cards) = 4
         THEN redCount = 2 /\ blackCount = 2
       ELSE FALSE

\* mutant: the cards are left in the order they came in
InsertByValue_Append(sorted, c) == Append(sorted, c)

\* mutant: isRun looks at the cards in the order of the hand
SortByValue_Unsorted(cards) == cards

\* [...cards].sort((a, b) => a.value - b.value): a stable sort by value
RECURSIVE InsertByValue(_, _)
InsertByValue(sorted, c) ==
  IF sorted = <<>> THEN <<c>>
  ELSE IF sorted[Len(sorted)].value <= c.value THEN Append(sorted, c)
  ELSE Append(InsertByValue(SubSeq(sorted, 1, Len(sorted) - 1), c), sorted[Len(sorted)])

RECURSIVE SortByValue(_)
SortByValue(cards) ==
  IF cards = <<>> THEN <<>>
  ELSE InsertByValue(SortByValue(SubSeq(cards, 1, Len(cards) - 1)), cards[Len(cards)])

\* mutant: the Ace-high branch is left out
isRun_NoAceHigh(cards) ==
  /\ Len(cards) >= 3
  /\ \A i \in DOMAIN cards : cards[i].suit = cards[1].suit
  /\ LET sortedCards == SortByValue(cards)
     IN \A i \in 2..Len(sortedCards) : sortedCards[i].value = sortedCards[i - 1].value + 1

isRun(cards) ==
  IF Len(cards) < 3 THEN FALSE
  ELSE
    LET firstSuit == cards[1].suit
        sortedCards == SortByValue(cards)
        n == Len(sortedCards)
        standardSequence == \A i \in 2..n : sortedCards[i].value = sortedCards[i - 1].value + 1
        hasAce == \E i \in 1..n : sortedCards[i].rank = ACE
        NotAce(c) == c.rank # ACE
        nonAce == SelectSeq(sortedCards, NotAce)
        nonAceRanks == [i \in 1..Len(nonAce) |-> nonAce[i].rank]
        expectedHighRanks == SliceLast(RANK_ORDER, n - 1)
    IN IF ~(\A i \in DOMAIN cards : cards[i].suit = firstSuit) THEN FALSE
       ELSE IF standardSequence THEN TRUE
       ELSE IF hasAce
         THEN /\ Len(nonAceRanks) = n - 1
              /\ Len(nonAceRanks) = Len(expectedHighRanks)
              /\ \A i \in 1..Len(nonAceRanks) : nonAceRanks[i] = expectedHighRanks[i]
       ELSE FALSE

-----------------------------------------------------------------------------
(* Combination generator *)

\* mutant: the end of the array is tested before the length of the combination
RECURSIVE backtrack_EndFirst(_, _, _, _)
backtrack_EndFirst(array, k, startIndex, currentCombination) ==
  IF startIndex = Len(array) THEN <<>>
  ELSE IF Len(currentCombination) = k THEN << currentCombination >>
  ELSE backtrack_EndFirst(array, k, startIndex + 1, Append(currentCombination, At(array, startIndex)))
       \o backtrack_EndFirst(array, k, startIndex + 1, currentCombination)

RECURSIVE backtrack(_, _, _, _)
backtrack(array, k, startIndex, currentCombination) ==
  IF Len(currentCombination) = k THEN << currentCombination >>
  ELSE IF startIndex = Len(array) THEN <<>>
  ELSE backtrack(array, k, startIndex + 1, Append(currentCombination, At(array, startIndex)))
       \o backtrack(array, k, startIndex + 1, currentCombination)

getCombinations(array, k) == backtrack(array, k, 0, <<>>)

-----------------------------------------------------------------------------
(* Win evaluator *)

MIN_CARDS_PER_PLAYER == 13

isMeld(combo) == isSet(combo) \/ isRun(combo)

\* mutant: the combinations are kept without asking isSet or isRun
allPossibleMelds_Unfiltered(cards, size) ==
  IF Len(cards) < size THEN <<>> ELSE getCombinations(cards, size)

allPossibleMelds(cards, size) ==
  IF Len(cards) < size THEN <<>>
  ELSE SelectSeq(getCombinations(cards, size), isMeld)

\* hand.filter(card => !meld4Originals.has(card.original))
remainingCardsAfterMeld4(hand, meld4) ==
  LET meld4Originals == {meld4[i].original : i \in DOMAIN meld4}
      Keep(card) == card.original \notin meld4Originals
  IN SelectSeq(hand, Keep)

\* mutant: the disjointness test of the two 3-melds is left out
areDisjoint_Always(m3_one, m3_two) == TRUE

\* the inner loop over the cards of m3_two
areDisjoint(m3_one, m3_two) ==
  LET m3_one_originals == {m3_one[i].original : i \in DOMAIN m3_one}
  IN \A i \in DOMAIN m3_two : m3_two[i].original \notin m3_one_originals

\* the body of the loop over meldsOf4: TRUE iff this meld4 makes the function return true
meld4Succeeds(hand, meld4) ==
  LET remaining == remainingCardsAfterMeld4(hand, meld4)
  IN IF Len(remaining) # MIN_CARDS_PER_PLAYER - 4 THEN FALSE
     ELSE LET meldsOf3FromRemaining == allPossibleMelds(remaining, 3)
          IN IF Len(meldsOf3FromRemaining) < 2 THEN FALSE
             ELSE LET combosOfTwoMeld3 == getCombinations(meldsOf3FromRemaining, 2)
                  IN \E p \in DOMAIN combosOfTwoMeld3 :
                        areDisjoint(combosOfTwoMeld3[p][1], combosOfTwoMeld3[p][2])

\* mutant: the size test that opens checkWinningCondition is left out
checkWinningCondition_NoSizeTest(handStrings) ==
  LET hand == [i \in DOMAIN handStrings |-> parseCard(handStrings[i])]
      meldsOf4 == allPossibleMelds(hand, 4)
  IN \E m \in DOMAIN meldsOf4 : meld4Succeeds(hand, meldsOf4[m])

checkWinningCondition(handStrings) ==
  IF Len(handStrings) # MIN_CARDS_PER_PLAYER THEN FALSE
  ELSE LET hand == [i \in DOMAIN handStrings |-> parseCard(handStrings[i])]
           meldsOf4 == allPossibleMelds(hand, 4)
       IN \E m \in DOMAIN meldsOf4 : meld4Succeeds(hand, meldsOf4[m])

-----------------------------------------------------------------------------
(* Deck manager *)

suits == <<SPADE, HEART, DIAMOND, CLUB>>

values == RANK_ORDER

\* value + suit: the token of a card
token(value, suit) == value \o <<suit>>

\* the three nested loops of createDeck: deck d, then suit, then value
unshuffledDeck(numDecks) ==
  ArrayOf([p \in 1..(numDecks * 52) |->
             token(values[((p - 1) % 13) + 1], suits[(((p - 1) \div 13) % 4) + 1])])

\* mutant: the shuffle copies newDeck[j] over newDeck[i] instead of swapping them
swapStep_Overwrite(newDeck, i, rand) ==
  [newDeck EXCEPT ![i + 1] = At(newDeck, rand[i])]

\* one iteration of the shuffle loop; rand[i] is the value drawn for
\* Math.floor(Math.random() * (i + 1)), a number of 0..i
swapStep(newDeck, i, rand) ==
  LET j == rand[i]
  IN [newDeck EXCEPT ![i + 1] = At(newDeck, j), ![j + 1] = At(newDeck, i)]

\* the iterations i = hi, hi - 1, ..., lo of the shuffle loop, in that order:
\* first those from hi down to mid + 1, then those from mid down to lo
RECURSIVE shuffleSteps(_, _, _, _)
shuffleSteps(newDeck, hi, lo, rand) ==
  IF hi < lo \/ Len(newDeck) = 0 THEN newDeck
  ELSE IF hi = lo THEN swapStep(newDeck, hi, rand)
  ELSE LET mid == (hi + lo) \div 2
       IN shuffleSteps(shuffleSteps(newDeck, hi, mid + 1, rand), mid, lo, rand)

\* the shuffle loop, from index i down to 1
shuffleFrom(newDeck, i, rand) == shuffleSteps(newDeck, i, 1, rand)

numDecksFor(numberOfPlayersForThisGame) ==
  Max(1, (numberOfPlayersForThisGame + 1) \div 2)

createDeck(numberOfPlayersForThisGame, rand) ==
  LET newDeck == unshuffledDeck(numDecksFor(numberOfPlayersForThisGame))
  IN shuffleFrom(newDeck, Len(newDeck) - 1, rand)

-----------------------------------------------------------------------------
(* Table / turn state machine *)

NUM_PLAYERS == 4

MAX_CARDS_PER_PLAYER_LOGIC == 14

\* id and cards of each player; name, slot and position only feed the rendering
getPlayerPositions(numPlayers) ==
  ArrayOf([i \in 1..numPlayers |-> [id |-> i, cards |-> <<>>]])

\* mutant: the cards are copied with slice, not taken out of the deck with splice
dealFrom_NoSplice(newPlayers, newDeck, k) ==
  [players |-> [i \in DOMAIN newPlayers |->
                  [newPlayers[i] EXCEPT !.cards = SliceTo(newDeck, MIN_CARDS_PER_PLAYER)]],
   deck    |-> newDeck]

\* newPlayers.forEach(player => player.cards = newDeck.splice(0, Math.min(cardsToDeal, newDeck.length)))
RECURSIVE dealFrom(_, _, _)
dealFrom(newPlayers, newDeck, k) ==
  IF k > Len(newPlayers) THEN [players |-> newPlayers, deck |-> newDeck]
  ELSE LET n == Min(MIN_CARDS_PER_PLAYER, Len(newDeck))
       IN dealFrom([newPlayers EXCEPT ![k].cards = SliceTo(newDeck, n)],
                   SliceFrom(newDeck, n), k + 1)

\* mutant: the flag is raised for every 13-card hand
canDeclareEffect_SizeOnly(playerList, idx, w) ==
  InRange(playerList, idx) /\ Len(At(playerList, idx).cards) = MIN_CARDS_PER_PLAYER /\ w = <<>>

\* the body shared by the two useEffect hooks that refresh canDeclare
canDeclareEffect(playerList, idx, w) ==
  IF InRange(playerList, idx) /\ Len(At(playerList, idx).cards) = MIN_CARDS_PER_PLAYER /\ w = <<>>
    THEN checkWinningCondition(At(playerList, idx).cards)
    ELSE FALSE

\* mutant: the effect on [currentPlayer, winner] does not refresh the flag
Commit_StaleFlag(newPlayers, newCurrent, newWinner, queuedCanDeclare, playersSet) ==
  LET effect1 == playersSet \/ newWinner # winner
      effect2 == newCurrent # currentPlayer \/ newWinner # winner
      ref1 == IF effect1 THEN newPlayers ELSE playersRef
  IN /\ players' = newPlayers
     /\ currentPlayer' = newCurrent
     /\ winner' = newWinner
     /\ playersRef' = ref1
     /\ currentPlayerRef' = IF effect2 THEN newCurrent ELSE currentPlayerRef
     /\ canDeclare' = IF effect1 THEN canDeclareEffect(newPlayers, currentPlayerRef, newWinner)
                                 ELSE queuedCanDeclare

\* The render that follows a handler and the effects it triggers.  newPlayers,
\* newCurrent, newWinner, queuedCanDeclare are the state after the handler's
\* queued updates; playersSet says that setPlayers was given a fresh array.
\* Effect 1 (deps players, winner) runs before effect 2 (deps currentPlayer, winner).
Commit(newPlayers, newCurrent, newWinner, queuedCanDeclare, playersSet) ==
  LET effect1 == playersSet \/ newWinner # winner
      effect2 == newCurrent # currentPlayer \/ newWinner # winner
      ref1 == IF effect1 THEN newPlayers ELSE playersRef
      cd1 == IF effect1 THEN canDeclareEffect(newPlayers, currentPlayerRef, newWinner)
                        ELSE queuedCanDeclare
  IN /\ players' = newPlayers
     /\ currentPlayer' = newCurrent
     /\ winner' = newWinner
     /\ playersRef' = ref1
     /\ currentPlayerRef' = IF effect2 THEN newCurrent ELSE currentPlayerRef
     /\ canDeclare' = IF effect2 THEN canDeclareEffect(ref1, newCurrent, newWinner) ELSE cd1

-----------------------------------------------------------------------------
(* Bounds and inputs of the exploration *)

\* commands accepted per game that the exploration follows
MaxSteps == 2

\* Values drawn by Math.random in the shuffle loop: rand[i] = i (no swap at i)
\* except at the indices of exc.
randWith(exc) ==
  [i \in 1..(52 * numDecksFor(NUM_PLAYERS) - 1) |-> IF i \in DOMAIN exc THEN exc[i] ELSE i]

\* no swap at all: every player is dealt the 13 cards of one suit
RandSuited == randWith(<<>>)

\* player 1 is dealt AS 2S 3S 4S AH 6S 7S 8S 9H 10S JS QH KS and the deck's head is QS
RandNearWin == randWith(63 :> 52 @@ 24 :> 11 @@ 21 :> 8 @@ 13 :> 4)

\* players 1 and 2 swap their cards of even rank, and so do players 3 and 4:
\* every hand alternates two suits and holds no meld at all
RandAlternating ==
  randWith(14 :> 1 @@ 16 :> 3 @@ 18 :> 5 @@ 20 :> 7 @@ 22 :> 9 @@ 24 :> 11 @@
           40 :> 27 @@ 42 :> 29 @@ 44 :> 31 @@ 46 :> 33 @@ 48 :> 35 @@ 50 :> 37)

\* player 1 is dealt AS 2S 3S 4S 9H 6S 7S 8S QH 10S JS QS AS (both AS of the two decks)
RandTwoAces == randWith(52 :> 12 @@ 24 :> 8 @@ 21 :> 4)

Shuffles == {RandSuited, RandNearWin, RandAlternating}

\* rounds of "draw, then discard the card just drawn" already played when the
\* exploration takes up a game near the end of its deck
LateRounds == 51

\* indices a click may hand to discardCard (14 is past the end of every hand)
DiscardIndices == {0, 13, 14}

\* drag gestures: the card dragged and where it is dropped
\* (a card of the hand, the hand container, or nowhere)
Gestures ==
  { [from |-> 0,  kind |-> "hand", to |-> 0, onSelf |-> FALSE],
    [from |-> 12, kind |-> "card", to |-> 0, onSelf |-> FALSE],
    [from |-> 0,  kind |-> "card", to |-> 0, onSelf |-> TRUE],
    [from |-> 0,  kind |-> "none", to |-> 0, onSelf |-> FALSE] }

NoArg == [from |-> 0, kind |-> "", to |-> 0, onSelf |-> FALSE]

IndexArg(i) == [from |-> i, kind |-> "", to |-> 0, onSelf |-> FALSE]

-----------------------------------------------------------------------------
(* Commands *)

Accepted(op, arg) ==
  /\ steps < MaxSteps
  /\ steps' = steps + 1
  /\ last' = [op |-> op, arg |-> arg, ok |-> TRUE]
  /\ UNCHANGED <<input, output>>

Rejected(op, arg) ==
  /\ last' = [op |-> op, arg |-> arg, ok |-> FALSE]
  /\ UNCHANGED <<steps, input, output>>

\* the first half of startGame: build the players, shuffle with the values rand, deal
startGameDeal(rand) ==
  LET numPlayers == NUM_PLAYERS
  IN dealFrom(getPlayerPositions(numPlayers), createDeck(numPlayers, rand), 1)

\* the deals the exploration starts games from, one per shuffle
Deals == {startGameDeal(rand) : rand \in Shuffles}

\* the second half of startGame: the state updates, then the render and its effects
startGameState(dealt) ==
  LET firstPlayer == dealt.players[1]
      queued == /\ Len(dealt.players) > 0
                /\ Len(firstPlayer.cards) = MIN_CARDS_PER_PLAYER
                /\ checkWinningCondition(firstPlayer.cards)
  IN /\ deck' = dealt.deck
     /\ discardedCards' = <<>>
     /\ UNCHANGED draggedCardIndex
     /\ Commit(dealt.players, 0, <<>>, queued, TRUE)

StartGame ==
  \E dealt \in Deals :
    /\ startGameState(dealt)
    /\ steps' = 0
    /\ last' = [op |-> "start", arg |-> NoArg, ok |-> TRUE]
    /\ UNCHANGED <<input, output>>

\* mutant: the `if (winner) return` guard of drawCard is left out
drawCardAccepted_NoWinnerGuard ==
  /\ Len(deck) # 0
  /\ InRange(playersRef, currentPlayerRef)
  /\ Len(At(playersRef, currentPlayerRef).cards) < MAX_CARDS_PER_PLAYER_LOGIC

\* mutant: the cap of drawCard is tested with > instead of >=
drawCardAccepted_CapOffByOne ==
  /\ winner = <<>>
  /\ Len(deck) # 0
  /\ InRange(playersRef, currentPlayerRef)
  /\ Len(At(playersRef, currentPlayerRef).cards) <= MAX_CARDS_PER_PLAYER_LOGIC

\* mutant: the cap of 14 cards is not tested at all
drawCardAccepted_NoCap ==
  /\ winner = <<>>
  /\ Len(deck) # 0
  /\ InRange(playersRef, currentPlayerRef)

drawCardAccepted ==
  /\ winner = <<>>
  /\ Len(deck) # 0
  /\ InRange(playersRef, currentPlayerRef)
  /\ Len(At(playersRef, currentPlayerRef).cards) < MAX_CARDS_PER_PLAYER_LOGIC

\* mutant: the card drawn is not taken off the deck
DrawCard_KeepDeck ==
  IF drawCardAccepted
    THEN LET newCard == At(deck, 0)
             updatedPlayers ==
               [playersRef EXCEPT ![currentPlayerRef + 1].cards = Append(@, newCard)]
         IN /\ deck' = deck
            /\ Commit(updatedPlayers, currentPlayer, winner, canDeclare, TRUE)
            /\ UNCHANGED <<discardedCards, draggedCardIndex>>
            /\ Accepted("draw", NoArg)
    ELSE UNCHANGED tableVars /\ Rejected("draw", NoArg)

DrawCard ==
  IF drawCardAccepted
    THEN LET newCard == At(deck, 0)
             updatedPlayers ==
               [playersRef EXCEPT ![currentPlayerRef + 1].cards = Append(@, newCard)]
         IN /\ deck' = SliceFrom(deck, 1)
            /\ Commit(updatedPlayers, currentPlayer, winner, canDeclare, TRUE)
            /\ UNCHANGED <<discardedCards, draggedCardIndex>>
            /\ Accepted("draw", NoArg)
    ELSE UNCHANGED tableVars /\ Rejected("draw", NoArg)

\* mutant: the test that the hand holds more than 13 cards is left out
discardCardAccepted_NoSizeTest(cardIndexToDiscard) ==
  /\ winner = <<>>
  /\ draggedCardIndex = <<>>
  /\ InRange(playersRef, currentPlayerRef)
  /\ InRange(At(playersRef, currentPlayerRef).cards, cardIndexToDiscard)

discardCardAccepted(cardIndexToDiscard) ==
  /\ winner = <<>>
  /\ draggedCardIndex = <<>>
  /\ InRange(playersRef, currentPlayerRef)
  /\ InRange(At(playersRef, currentPlayerRef).cards, cardIndexToDiscard)
  /\ ~(Len(At(playersRef, currentPlayerRef).cards) <= MIN_CARDS_PER_PLAYER)

\* mutant: the turn passes after every discard that leaves 13 cards
discardAdvances_Always(cardsAfterDiscard) == Len(cardsAfterDiscard) = MIN_CARDS_PER_PLAYER

\* mutant: a discard never passes the turn
discardAdvances_Never(cardsAfterDiscard) == FALSE

\* advanceTurn && playerAfterDiscard.cards.length === MIN_CARDS_PER_PLAYER
discardAdvances(cardsAfterDiscard) ==
  LET advanceTurn ==
        IF Len(cardsAfterDiscard) = MIN_CARDS_PER_PLAYER
          THEN ~checkWinningCondition(cardsAfterDiscard)
        ELSE IF Len(cardsAfterDiscard) > MIN_CARDS_PER_PLAYER THEN FALSE
        ELSE TRUE
  IN advanceTurn /\ Len(cardsAfterDiscard) = MIN_CARDS_PER_PLAYER

DiscardCard ==
  \E cardIndexToDiscard \in DiscardIndices :
    IF discardCardAccepted(cardIndexToDiscard)
      THEN LET currentPlayerData == At(playersRef, currentPlayerRef)
               discardedItem == At(currentPlayerData.cards, cardIndexToDiscard)
               updatedPlayerList ==
                 [playersRef EXCEPT ![currentPlayerRef + 1].cards = RemoveAt(@, cardIndexToDiscard)]
               playerAfterDiscard == At(updatedPlayerList, currentPlayerRef)
               newCurrent ==
                 IF discardAdvances(playerAfterDiscard.cards)
                   THEN (currentPlayer + 1) % Len(updatedPlayerList)
                   ELSE currentPlayer
           IN /\ discardedCards' =
                   Append(discardedCards, [playerId |-> currentPlayerData.id, card |-> discardedItem])
              /\ Commit(updatedPlayerList, newCurrent, winner, canDeclare, TRUE)
              /\ UNCHANGED <<deck, draggedCardIndex>>
              /\ Accepted("discard", IndexArg(cardIndexToDiscard))
      ELSE UNCHANGED tableVars /\ Rejected("discard", IndexArg(cardIndexToDiscard))

\* mutant: skip only looks at the size of the hand, as the Skip button does
skipTurnAccepted_SizeOnly ==
  /\ winner = <<>>
  /\ InRange(playersRef, currentPlayerRef)
  /\ Len(At(playersRef, currentPlayerRef).cards) = MIN_CARDS_PER_PLAYER

\* mutant: skip is refused once the deck is empty
skipTurnAccepted_DeckNeeded ==
  /\ winner = <<>>
  /\ Len(deck) # 0
  /\ InRange(playersRef, currentPlayerRef)
  /\ Len(At(playersRef, currentPlayerRef).cards) = MIN_CARDS_PER_PLAYER
  /\ ~checkWinningCondition(At(playersRef, currentPlayerRef).cards)

skipTurnAccepted ==
  /\ winner = <<>>
  /\ InRange(playersRef, currentPlayerRef)
  /\ Len(At(playersRef, currentPlayerRef).cards) = MIN_CARDS_PER_PLAYER
  /\ ~checkWinningCondition(At(playersRef, currentPlayerRef).cards)

\* mutant: the turn pointer is incremented without the modulo
SkipTurn_NoWrap ==
  IF skipTurnAccepted
    THEN /\ Commit(players, currentPlayer + 1, winner, canDeclare, FALSE)
         /\ UNCHANGED <<deck, discardedCards, draggedCardIndex>>
         /\ Accepted("skip", NoArg)
    ELSE UNCHANGED tableVars /\ Rejected("skip", NoArg)

SkipTurn ==
  IF skipTurnAccepted
    THEN /\ Commit(players, (currentPlayer + 1) % Len(playersRef), winner, canDeclare, FALSE)
         /\ UNCHANGED <<deck, discardedCards, draggedCardIndex>>
         /\ Accepted("skip", NoArg)
    ELSE UNCHANGED tableVars /\ Rejected("skip", NoArg)

\* mutant: declare does not run the win evaluator
declareWinAccepted_NoEvaluator ==
  /\ winner = <<>>
  /\ InRange(players, currentPlayer)
  /\ Len(At(players, currentPlayer).cards) = MIN_CARDS_PER_PLAYER

\* mutant: the `if (winner) return` guard of declareWin is left out
declareWinAccepted_NoWinnerGuard ==
  /\ InRange(players, currentPlayer)
  /\ Len(At(players, currentPlayer).cards) = MIN_CARDS_PER_PLAYER
  /\ checkWinningCondition(At(players, currentPlayer).cards)

declareWinAccepted ==
  /\ winner = <<>>
  /\ InRange(players, currentPlayer)
  /\ Len(At(players, currentPlayer).cards) = MIN_CARDS_PER_PLAYER
  /\ checkWinningCondition(At(players, currentPlayer).cards)

DeclareWin ==
  IF declareWinAccepted
    THEN /\ Commit(players, currentPlayer, <<At(players, currentPlayer)>>, canDeclare, FALSE)
         /\ UNCHANGED <<deck, discardedCards, draggedCardIndex>>
         /\ Accepted("declare", NoArg)
    ELSE /\ IF winner # <<>>
              THEN UNCHANGED tableVars
              ELSE /\ Commit(players, currentPlayer, winner, FALSE, FALSE)
                   /\ UNCHANGED <<deck, discardedCards, draggedCardIndex>>
         /\ Rejected("declare", NoArg)

\* mutant: the dragged card is inserted without being taken out first
handleDropCards_NoRemove(cards, cardBeingDraggedIndex, dropTargetIndex, onHand) ==
  InsertAt(cards, Min(dropTargetIndex, Len(cards)), At(cards, cardBeingDraggedIndex))

\* the hand handleDrop builds for the card dragged from cardBeingDraggedIndex
handleDropCards(cards, cardBeingDraggedIndex, dropTargetIndex, onHand) ==
  LET draggedItem == At(cards, cardBeingDraggedIndex)
      currentPlayerCards == RemoveAt(cards, cardBeingDraggedIndex)
      shifted == IF cardBeingDraggedIndex < dropTargetIndex
                   THEN dropTargetIndex - 1 ELSE dropTargetIndex
      actualDropTargetIndex ==
        IF onHand /\ dropTargetIndex >= Len(cards) THEN Len(currentPlayerCards) ELSE shifted
  IN InsertAt(currentPlayerCards, actualDropTargetIndex, draggedItem)

\* the drop target index the rendering passes to handleDrop
dropTargetIndexOf(g) ==
  IF g.kind = "hand" THEN Len(At(players, currentPlayer).cards) ELSE g.to

\* handleDragStart sets draggedCardIndex, handleDrop reaches its setPlayers
reorderAccepted(g) ==
  /\ winner = <<>>
  /\ g.kind # "none"
  /\ ~(g.from = dropTargetIndexOf(g) /\ g.onSelf)
  /\ InRange(playersRef, currentPlayerRef)
  /\ ~(g.from >= Len(At(playersRef, currentPlayerRef).cards))

\* One drag gesture: handleDragStart, then handleDrop when the card is dropped
\* on a target, then handleDragEnd.  The browser delivers no click while a
\* drag is in progress, so the three handlers form one command and
\* draggedCardIndex is null again when it ends.
reorderGesture(g) ==
    /\ InRange(players, currentPlayer)
    /\ InRange(At(players, currentPlayer).cards, g.from)
    /\ IF reorderAccepted(g)
         THEN LET updatedPlayers ==
                    [playersRef EXCEPT ![currentPlayerRef + 1].cards =
                       handleDropCards(@, g.from, dropTargetIndexOf(g), g.kind = "hand")]
              IN /\ Commit(updatedPlayers, currentPlayer, winner, canDeclare, TRUE)
                 /\ draggedCardIndex' = <<>>
                 /\ UNCHANGED <<deck, discardedCards>>
                 /\ Accepted("reorder", g)
         ELSE /\ UNCHANGED <<players, discardedCards, deck, currentPlayer, winner,
                             canDeclare, playersRef, currentPlayerRef>>
              /\ draggedCardIndex' = <<>>
              /\ Rejected("reorder", g)

Reorder == \E g \in Gestures : reorderGesture(g)

-----------------------------------------------------------------------------
(* The game: the component mounts, its mount effect runs startGame, and the
   commands follow one another, each run to completion. *)

\* A game taken up after k turns in each of which the active player drew and
\* discarded the card just drawn (index 13).  No dealt hand wins, so each such
\* discard passed the turn: the hands are the dealt ones, the log holds the
\* first k cards of the deck with the player ids in turn order.
lateGame(dealt, k) ==
  [players        |-> dealt.players,
   deck           |-> SliceFrom(dealt.deck, k),
   discardedCards |-> ArrayOf([i \in 1..k |->
                         [playerId |-> dealt.players[((i - 1) % Len(dealt.players)) + 1].id,
                          card     |-> dealt.deck[i]]]),
   currentPlayer  |-> k % Len(dealt.players)]

freshGame(dealt) ==
  [players |-> dealt.players, deck |-> dealt.deck, discardedCards |-> <<>>, currentPlayer |-> 0]

noHandWins(dealt) ==
  \A p \in DOMAIN dealt.players : ~checkWinningCondition(dealt.players[p].cards)

StartingTables ==
  {freshGame(dealt) : dealt \in Deals}
    \cup {lateGame(dealt, LateRounds) : dealt \in {d \in {startGameDeal(RandAlternating)} : noHandWins(d)}}

Init ==
  /\ \E t \in StartingTables :
       /\ players = t.players
       /\ deck = t.deck
       /\ discardedCards = t.discardedCards
       /\ currentPlayer = t.currentPlayer
       /\ playersRef = t.players
       /\ currentPlayerRef = t.currentPlayer
       /\ canDeclare = canDeclareEffect(t.players, t.currentPlayer, <<>>)
  /\ draggedCardIndex = <<>>
  /\ winner = <<>>
  /\ steps = 0
  /\ last = [op |-> "start", arg |-> NoArg, ok |-> TRUE]
  /\ input = <<>>
  /\ output = <<>>

Next == StartGame \/ DrawCard \/ DiscardCard \/ SkipTurn \/ DeclareWin \/ Reorder

Spec == Init /\ [][Next]_vars

-----------------------------------------------------------------------------
(* Vocabulary of the properties of the turn state machine *)

ActiveHand == players[currentPlayer + 1].cards

NextPlayerIndex == (currentPlayer + 1) % Len(players)

NoWinner == winner = <<>>

TurnCommands == {"draw", "discard", "skip", "declare", "reorder"}

\* hand without the card at 0-based index idx, the others in their order
WithoutIndex(hand, idx) ==
  [i \in 1..(Len(hand) - 1) |-> IF i <= idx THEN hand[i] ELSE hand[i + 1]]

\* mutant: the pile shows the first record of the log
lastDiscarded_Bottom ==
  IF Len(discardedCards) > 0 THEN <<discardedCards[1]>> ELSE <<>>

\* the record the discard pile shows, <<>> for null
lastDiscarded ==
  IF Len(discardedCards) > 0 THEN <<discardedCards[Len(discardedCards)]>> ELSE <<>>

PlayerIds == [p \in DOMAIN players |-> players[p].id]

WithHand(p, hand) == [i \in DOMAIN players |-> IF i = p + 1 THEN [players[i] EXCEPT !.cards = hand] ELSE players[i]]

-----------------------------------------------------------------------------
\* C1: Declare is accepted exactly when no winner is set, the active hand has
\* 13 cards and checkWinningCondition holds for it; an accepted declare makes
\* the active player the winner; and whenever there is a winner, the winner's
\* hand has 13 cards and satisfies checkWinningCondition.
C1_DeclareContract ==
  /\ [](~NoWinner => /\ Len(winner[1].cards) = 13
                     /\ checkWinningCondition(winner[1].cards)
                     /\ winner[1] \in {players[i] : i \in DOMAIN players})
  /\ [][last'.op = "declare" =>
          /\ last'.ok <=> (NoWinner /\ Len(ActiveHand) = 13 /\ checkWinningCondition(ActiveHand))
          /\ last'.ok => winner' = <<players[currentPlayer + 1]>>]_vars

C1_Witness == last.op = "declare" /\ last.ok /\ ~NoWinner

\* C2: once a winner is set, every draw, discard, skip, declare and reorder is
\* rejected and leaves hands, deck, discard log, turn pointer and winner as
\* they were.
C2_TerminalAfterDeclare ==
  [][(~NoWinner /\ last'.op \in TurnCommands) =>
        /\ ~last'.ok
        /\ UNCHANGED <<players, deck, discardedCards, currentPlayer, winner>>]_vars

C2_Witness == ~NoWinner /\ last.op = "reorder" /\ ~last.ok

\* C3 (as stated): once a winner is set, no later command, startGame
\* included, clears or replaces it.
C3_WinnerNeverCleared == [][~NoWinner => winner' = winner]_vars

\* C3 (amended): within a game the winner is set at most once, by an accepted
\* declare issued while there is no winner; the only command that changes a
\* winner already set is startGame, which clears it.
C3_WinnerSetOncePerGame ==
  /\ [][winner' # winner =>
          \/ (last'.op = "start" /\ winner' = <<>>)
          \/ (last'.op = "declare" /\ last'.ok /\ NoWinner /\ winner' # <<>>)]_vars
  /\ [][(last'.op = "declare" /\ last'.ok) => NoWinner]_vars

C3_Witness == ~NoWinner /\ last.op = "declare" /\ ~last.ok

\* C4: Discard(index) is accepted exactly when no winner is set, index is
\* inside the active hand and the hand has more than 13 cards; it removes the
\* card at index, appends (active player's id, card) to the log, and the turn
\* passes to the next player unless the resulting hand wins.
C4_DiscardContract ==
  [][last'.op = "discard" =>
       LET idx == last'.arg.from
           after == WithoutIndex(ActiveHand, idx)
       IN /\ last'.ok <=> (NoWinner /\ idx \in 0..(Len(ActiveHand) - 1) /\ Len(ActiveHand) > 13)
          /\ last'.ok =>
               /\ players' = WithHand(currentPlayer, after)
               /\ discardedCards' = Append(discardedCards,
                                           [playerId |-> players[currentPlayer + 1].id,
                                            card     |-> ActiveHand[idx + 1]])
               /\ Len(after) = 13
               /\ currentPlayer' = IF checkWinningCondition(after)
                                     THEN currentPlayer ELSE NextPlayerIndex]_vars

\* an accepted discard that left a winning hand: the turn stayed with the discarder
C4_Witness ==
  /\ last.op = "discard" /\ last.ok
  /\ checkWinningCondition(ActiveHand)
  /\ discardedCards[Len(discardedCards)].playerId = players[currentPlayer + 1].id

\* C5: Skip is accepted exactly when no winner is set and the active hand has
\* 13 cards that do not satisfy checkWinningCondition; it passes the turn to
\* the next player and changes no hand, deck or discard log.
C5_SkipContract ==
  [][last'.op = "skip" =>
       /\ last'.ok <=> (NoWinner /\ Len(ActiveHand) = 13 /\ ~checkWinningCondition(ActiveHand))
       /\ last'.ok => /\ currentPlayer' = NextPlayerIndex
                      /\ UNCHANGED <<players, deck, discardedCards, winner>>]_vars

C5_Witness == last.op = "skip" /\ last.ok /\ currentPlayer = 1

\* C6: Draw is accepted exactly when no winner is set, the deck is not empty
\* and the active hand has fewer than 14 cards; it moves the head of the deck
\* to the end of the active hand and leaves the turn pointer, the other hands
\* and the discard log alone.
C6_DrawContract ==
  [][last'.op = "draw" =>
       /\ last'.ok <=> (NoWinner /\ deck # <<>> /\ Len(ActiveHand) < 14)
       /\ last'.ok => /\ deck' = Tail(deck)
                      /\ players' = WithHand(currentPlayer, Append(ActiveHand, Head(deck)))
                      /\ UNCHANGED <<currentPlayer, discardedCards, winner>>]_vars

\* an accepted draw that took the last card of the deck
C6_Witness == last.op = "draw" /\ last.ok /\ deck = <<>> /\ Len(ActiveHand) = 14

\* C7: a rejected command changes neither players, hands, deck, discard log,
\* turn pointer, winner nor the can-declare flag, and the same command issued
\* again is rejected again.
C7_RejectedIsNoOp ==
  /\ [][~last'.ok => UNCHANGED <<players, deck, discardedCards, currentPlayer,
                                 winner, canDeclare>>]_vars
  /\ [][(~last.ok /\ last'.op = last.op /\ last'.arg = last.arg) => ~last'.ok]_vars

\* a draw rejected because the deck is empty
C7_Witness ==
  last.op = "draw" /\ ~last.ok /\ NoWinner /\ deck = <<>> /\ Len(ActiveHand) = 13

\* C15 (as stated): the can-declare flag equals checkWinningCondition of the
\* active hand when that hand has 13 cards and is false otherwise, after every
\* command, a successful declare included.
C15_FlagIsEvaluator ==
  canDeclare = (Len(ActiveHand) = 13 /\ checkWinningCondition(ActiveHand))

\* C15 (amended): the can-declare flag equals checkWinningCondition of the
\* active hand when that hand has 13 cards and no winner is set, and is false
\* otherwise: a successful declare lowers it although the winner's hand wins.
C15_FlagIsEvaluatorUntilWon ==
  canDeclare = (Len(ActiveHand) = 13 /\ NoWinner /\ checkWinningCondition(ActiveHand))

\* a declare just succeeded: the winner's 13 cards win and the flag is down
C15_Witness ==
  /\ last.op = "declare" /\ last.ok /\ ~NoWinner
  /\ Len(ActiveHand) = 13 /\ checkWinningCondition(ActiveHand) /\ ~canDeclare

\* C18: the turn pointer is always a valid player index; it changes only by
\* an accepted skip or discard, from i to (i + 1) mod playerCount, or by
\* startGame; and no other command changes the number, ids or order of players.
C18_TurnOrder ==
  /\ [](currentPlayer \in 0..(Len(players) - 1))
  /\ [][currentPlayer' # currentPlayer =>
          \/ last'.op = "start"
          \/ /\ last'.op \in {"skip", "discard"} /\ last'.ok
             /\ currentPlayer' = (currentPlayer + 1) % Len(players)]_vars
  /\ [][(last'.op = "skip" /\ last'.ok) => currentPlayer' = (currentPlayer + 1) % Len(players)]_vars
  /\ [][last'.op # "start" => PlayerIds' = PlayerIds]_vars

\* the turn passed from the last player back to the first
C18_Witness ==
  /\ last.op = "skip" /\ last.ok /\ currentPlayer = 0 /\ discardedCards # <<>>

\* C19: between game starts the discard log only grows at its end: an
\* accepted discard appends one record, no other command touches the log, and
\* the record the pile shows is the card just discarded with its player's id.
C19_DiscardLogAppendOnly ==
  [][last'.op # "start" =>
       IF last'.op = "discard" /\ last'.ok
         THEN /\ Len(discardedCards') = Len(discardedCards) + 1
              /\ SubSeq(discardedCards', 1, Len(discardedCards)) = discardedCards
              /\ lastDiscarded' = <<[playerId |-> players[currentPlayer + 1].id,
                                      card     |-> ActiveHand[last'.arg.from + 1]]>>
         ELSE /\ discardedCards' = discardedCards
              /\ lastDiscarded' = lastDiscarded]_vars

\* the last player's discard on top of a log that already holds records
C19_Witness ==
  /\ last.op = "discard" /\ last.ok
  /\ Len(discardedCards) > 1
  /\ lastDiscarded = <<[playerId |-> 4, card |-> discardedCards[Len(discardedCards)].card]>>

\* C21 (as stated): while the active player holds a winning 13-card hand and
\* no winner is set, no skip, draw or discard is accepted, so hands, deck,
\* log, turn pointer and winner change only through declare or a reorder.
C21_WinningHandMustDeclare ==
  [][(NoWinner /\ Len(ActiveHand) = 13 /\ last'.op \in TurnCommands
        /\ checkWinningCondition(ActiveHand)) =>
        /\ last'.op \in {"skip", "draw", "discard"} => ~last'.ok
        /\ <<players, deck, discardedCards, currentPlayer, winner>>'
              # <<players, deck, discardedCards, currentPlayer, winner>>
             => last'.op \in {"declare", "reorder"}]_vars

\* C21 (amended): while the active player holds a winning 13-card hand and no
\* winner is set, no skip and no discard is accepted; a draw is accepted
\* exactly when the deck is not empty and leaves the turn with that player;
\* so hands, deck, log, turn pointer and winner change only through declare,
\* a reorder or a draw.
C21_WinningHandMayNotSkip ==
  [][(NoWinner /\ Len(ActiveHand) = 13 /\ last'.op \in TurnCommands
        /\ checkWinningCondition(ActiveHand)) =>
        /\ last'.op \in {"skip", "discard"} => ~last'.ok
        /\ last'.op = "draw" => /\ last'.ok <=> deck # <<>>
                                /\ currentPlayer' = currentPlayer
        /\ <<players, deck, discardedCards, currentPlayer, winner>>'
              # <<players, deck, discardedCards, currentPlayer, winner>>
             => last'.op \in {"declare", "reorder", "draw"}]_vars

\* a skip rejected on the winning hand that a draw and a discard left
C21_Witness ==
  /\ last.op = "skip" /\ ~last.ok /\ NoWinner /\ discardedCards # <<>>
  /\ Len(ActiveHand) = 13 /\ checkWinningCondition(ActiveHand)

\* the decks createDeck returns for the shuffles the exploration draws
ShuffledDecks == {createDeck(NUM_PLAYERS, rand) : rand \in Shuffles}

\* C25: right after startGame, also in the middle of a game or after a win,
\* player k holds the cards 13(k-1)+1 .. 13k of the shuffled deck, the deck
\* holds the other 52 cards in their shuffled order, the discard log is
\* empty, the turn is the first player's and there is no winner.
C25_StartGameDeals ==
  [][last'.op = "start" =>
       /\ \E d \in ShuffledDecks :
            /\ Len(d) = 104
            /\ Len(players') = 4
            /\ \A k \in 1..4 :
                 /\ players'[k].id = k
                 /\ Len(players'[k].cards) = 13
                 /\ players'[k].cards = SubSeq(d, 13 * (k - 1) + 1, 13 * k)
            /\ Len(deck') = 52
            /\ deck' = SubSeq(d, 53, 104)
       /\ discardedCards' = <<>>
       /\ currentPlayer' = 0
       /\ winner' = <<>>]_vars

\* a fresh deal of a shuffled deck: player 1 holds a hand of two suits and
\* the queen of spades heads the deck
C25_Witness ==
  /\ last.op = "start" /\ steps = 0 /\ NoWinner
  /\ discardedCards = <<>> /\ currentPlayer = 0 /\ Len(deck) = 52
  /\ ActiveHand = startGameDeal(RandNearWin).players[1].cards
  /\ ActiveHand # startGameDeal(RandSuited).players[1].cards
  /\ deck[1] = <<"Q", SPADE>>

\* C26: every hand has 13 or 14 cards, and only the active player can hold
\* 14; so a discard is accepted on 14 cards only and leaves exactly 13: the
\* branch "still more than 13 cards after the discard" is never taken.
C26_HandSizes ==
  /\ [](\A p \in DOMAIN players :
          /\ Len(players[p].cards) \in {13, 14}
          /\ p # currentPlayer + 1 => Len(players[p].cards) = 13)
  /\ [][(last'.op = "discard" /\ last'.ok) =>
          /\ Len(ActiveHand) = 14
          /\ Len(players'[currentPlayer + 1].cards) = 13
          /\ ~(Len(RemoveAt(ActiveHand, last'.arg.from)) > MIN_CARDS_PER_PLAYER)]_vars

\* the first player drew and discarded the first card of the hand: every
\* hand has 13 cards again and the turn is the second player's
C26_Witness ==
  /\ last.op = "discard" /\ last.ok /\ last.arg.from = 0 /\ currentPlayer = 1
  /\ \A p \in DOMAIN players : Len(players[p].cards) = 13
  /\ Len(discardedCards) = 1 /\ Len(deck) = 51

\* the cards of the hands of the players from index p on, one hand after the other
RECURSIVE HandsFrom(_)
HandsFrom(p) ==
  IF p > Len(players) THEN <<>> ELSE players[p].cards \o HandsFrom(p + 1)

\* every card on the table: the deck, the hands and the cards of the discard log
TableCards ==
  deck \o HandsFrom(1) \o [i \in DOMAIN discardedCards |-> discardedCards[i].card]

\* the number of cards of a sequence that carry the token
Copies(cards, tok) == Cardinality({i \in DOMAIN cards : cards[i] = tok})

\* C27: cards are conserved: deck, hands and discard log together hold each
\* of the 52 tokens exactly twice and nothing else, as createDeck built them
\* for 4 players, and deck length + log length + (1 if the active hand has 14
\* cards, else 0) is 52.
C27_CardsConserved ==
  /\ Len(TableCards) = 104
  /\ \A i \in DOMAIN TableCards : TableCards[i] \in {token(values[v], suits[u]) : v \in 1..13, u \in 1..4}
  /\ \A v \in 1..13, u \in 1..4 : Copies(TableCards, token(values[v], suits[u])) = 2
  /\ \A d \in ShuffledDecks : \A i \in DOMAIN d : Copies(TableCards, d[i]) = Copies(d, d[i])
  /\ Len(deck) + Len(discardedCards) + (IF Len(ActiveHand) = 14 THEN 1 ELSE 0) = 52

\* the last card of the deck was drawn and a card discarded: the deck is
\* empty and the log holds 52 cards
C27_Witness ==
  /\ last.op = "discard" /\ last.ok
  /\ deck = <<>> /\ Len(discardedCards) = 52 /\ Len(HandsFrom(1)) = 52

\* C28: while no winner is set some command is accepted for the active
\* player, also when the deck is empty: a discard of any card of a 14-card
\* hand, declare on a winning 13-card hand, skip on any other 13-card hand.
C28_SomeCommandAccepted ==
  NoWinner =>
    /\ Len(ActiveHand) = 14 =>
          \A idx \in 0..13 : discardCardAccepted(idx)
    /\ Len(ActiveHand) = 13 =>
          IF checkWinningCondition(ActiveHand) THEN declareWinAccepted ELSE skipTurnAccepted
    /\ \/ drawCardAccepted
       \/ \E idx \in 0..13 : discardCardAccepted(idx)
       \/ skipTurnAccepted
       \/ declareWinAccepted

\* the deck is used up and the active player holds 13 cards that do not win:
\* no draw, no discard, no declare, but skip
C28_Witness ==
  /\ NoWinner /\ deck = <<>> /\ Len(ActiveHand) = 13
  /\ ~drawCardAccepted /\ ~declareWinAccepted /\ skipTurnAccepted
  /\ \A idx \in 0..13 : ~discardCardAccepted(idx)

-----------------------------------------------------------------------------
(* The win evaluator on its own: checkWinningCondition applied to one hand *)

Card(rankIndex, suit) == token(RANK_ORDER[rankIndex], suit)

\* hands the game deals to player 1
HandSuited == startGameDeal(RandSuited).players[1].cards
HandNearWin == startGameDeal(RandNearWin).players[1].cards
HandAlternating == startGameDeal(RandAlternating).players[1].cards
HandTwoAces == startGameDeal(RandTwoAces).players[1].cards

\* AS 2S 3S, KH KD KC, QH QD QS, 4C 5C 6C, 7D: four 3-melds and no 4-meld
HandFourTriples ==
  << Card(1, SPADE), Card(2, SPADE), Card(3, SPADE),
     Card(13, HEART), Card(13, DIAMOND), Card(13, CLUB),
     Card(12, HEART), Card(12, DIAMOND), Card(12, SPADE),
     Card(4, CLUB), Card(5, CLUB), Card(6, CLUB), Card(7, DIAMOND) >>

\* 2H 3H 4H 5H, 9S 9H 9D, JC QC KC and the unrelated AS 6D 8C
HandWithLeftover ==
  << Card(2, HEART), Card(3, HEART), Card(4, HEART), Card(5, HEART),
     Card(9, SPADE), Card(9, HEART), Card(9, DIAMOND),
     Card(11, CLUB), Card(12, CLUB), Card(13, CLUB),
     Card(1, SPADE), Card(6, DIAMOND), Card(8, CLUB) >>

\* 2S 3S 4S 5S, 5H 6H 7H, 5H 6H 7H (the 5H 6H 7H of both decks) and 9C JD KC
HandTwinRuns ==
  << Card(2, SPADE), Card(3, SPADE), Card(4, SPADE), Card(5, SPADE),
     Card(5, HEART), Card(6, HEART), Card(7, HEART),
     Card(5, HEART), Card(6, HEART), Card(7, HEART),
     Card(9, CLUB), Card(11, DIAMOND), Card(13, CLUB) >>

SeedHands ==
  {HandSuited, HandNearWin, HandAlternating, HandTwoAces, HandFourTriples, HandWithLeftover,
   HandTwinRuns}

ExtraTokens ==
  {Card(1, SPADE), Card(4, SPADE), Card(5, SPADE), Card(12, SPADE), Card(13, DIAMOND), Card(7, CLUB)}

\* every seed, every seed with one card replaced, every proper prefix of a
\* seed (0 to 12 cards) and every seed with one more card (14 cards)
WinInputs ==
  SeedHands
    \cup {[h EXCEPT ![i] = t] : h \in SeedHands, i \in 1..13, t \in ExtraTokens}
    \cup {SubSeq(h, 1, n) : h \in SeedHands, n \in 0..12}
    \cup {Append(h, t) : h \in SeedHands, t \in ExtraTokens}

InitWin ==
  /\ input \in WinInputs
  /\ output = <<>>
  /\ players = <<>> /\ discardedCards = <<>> /\ deck = <<>> /\ currentPlayer = 0
  /\ draggedCardIndex = <<>> /\ winner = <<>> /\ canDeclare = FALSE
  /\ playersRef = <<>> /\ currentPlayerRef = 0
  /\ steps = 0
  /\ last = [op |-> "none", arg |-> NoArg, ok |-> FALSE]

EvaluateWin ==
  /\ output = <<>>
  /\ output' = <<checkWinningCondition(input)>>
  /\ UNCHANGED <<tableVars, last, steps, input>>

NextWin == EvaluateWin

SpecWin == InitWin /\ [][NextWin]_vars

-----------------------------------------------------------------------------
(* Vocabulary of the properties of the win evaluator: groups of hand positions *)

Distinct(hand) == \A i, j \in DOMAIN hand : i # j => hand[i] # hand[j]

RECURSIVE InPositionOrder(_)
InPositionOrder(S) ==
  IF S = {} THEN <<>>
  ELSE LET m == CHOOSE x \in S : \A y \in S : x <= y
       IN <<m>> \o InPositionOrder(S \ {m})

\* the cards at the positions S of the hand form a set or a run
GroupIsMeld(hand, S) ==
  LET pos == InPositionOrder(S)
      group == [i \in DOMAIN pos |-> parseCard(hand[pos[i]])]
  IN isSet(group) \/ isRun(group)

GroupsOf(P, k) == {S \in SUBSET P : Cardinality(S) = k}

\* a 4-meld at positions F and two 3-melds at disjoint positions among the rest
IsFourThreeThree(hand, F, A, B) ==
  /\ Cardinality(F) = 4 /\ Cardinality(A) = 3 /\ Cardinality(B) = 3
  /\ F \cap A = {} /\ F \cap B = {} /\ A \cap B = {}
  /\ GroupIsMeld(hand, F) /\ GroupIsMeld(hand, A) /\ GroupIsMeld(hand, B)

FourMeldPositions(hand) ==
  {F \in {{a, b, c, d} : a, b, c, d \in DOMAIN hand} : Cardinality(F) = 4 /\ GroupIsMeld(hand, F)}

ThreeMeldPositions(hand, P) ==
  {A \in {{a, b, c} : a, b, c \in P} : Cardinality(A) = 3 /\ GroupIsMeld(hand, A)}

HasFourThreeThree(hand) ==
  \E F \in FourMeldPositions(hand) :
    LET threes == ThreeMeldPositions(hand, DOMAIN hand \ F)
    IN \E A, B \in threes : A \cap B = {}

\* some 4+3+3 whose three left-over cards are not a meld
HasFourThreeThreeAndLeftover(hand) ==
  \E F \in FourMeldPositions(hand) :
    LET threes == ThreeMeldPositions(hand, DOMAIN hand \ F)
    IN \E A, B \in threes :
         /\ A \cap B = {}
         /\ ~GroupIsMeld(hand, DOMAIN hand \ (F \cup A \cup B))

-----------------------------------------------------------------------------
\* C8: on a 13-card hand of pairwise distinct tokens checkWinningCondition is
\* true exactly when the hand holds a 4-card meld and, among the other nine
\* cards, two 3-card melds that share no card; the three cards left over
\* need not form a meld.
C8_WinIffFourThreeThree ==
  (output # <<>> /\ Len(input) = 13 /\ Distinct(input))
    => (output[1] <=> HasFourThreeThree(input))

C8_Witness ==
  /\ output = <<TRUE>> /\ Len(input) = 13 /\ Distinct(input)
  /\ HasFourThreeThreeAndLeftover(input)

\* C9 (as stated): for every 13-card hand, duplicate tokens included, removing
\* the four cards of any candidate 4-meld leaves exactly nine cards.
C9_NineCardsRemain ==
  (output # <<>> /\ Len(input) = 13) =>
    LET hand == [i \in DOMAIN input |-> parseCard(input[i])]
        meldsOf4 == allPossibleMelds(hand, 4)
    IN \A m \in DOMAIN meldsOf4 :
         Len(remainingCardsAfterMeld4(hand, meldsOf4[m])) = 9

\* C10: checkWinningCondition is false for every hand of 0 to 12 or of 14
\* cards, whatever melds it holds.
C10_FalseUnlessThirteen ==
  (output # <<>> /\ Len(input) # 13) => output[1] = FALSE

C10_Witness ==
  /\ output = <<FALSE>> /\ Len(input) = 14 /\ HasFourThreeThree(input)

\* C23 (as stated): checkWinningCondition is true for every 13-card hand that
\* holds a 4-meld and two 3-melds at pairwise different hand positions, also
\* when the two 3-melds are the same tokens taken from the two decks.
C23_WinsOnDisjointPositions ==
  (output # <<>> /\ Len(input) = 13 /\ HasFourThreeThree(input)) => output[1] = TRUE

\* C24: checkWinningCondition is false for every 13-card hand without a
\* 4-card set or run, even when the hand splits into four 3-card melds at
\* different positions, and so for every hand without any 3-card meld.
C24_NoFourMeldNoWin ==
  (output # <<>> /\ Len(input) = 13) =>
    /\ FourMeldPositions(input) = {} => output[1] = FALSE
    /\ ThreeMeldPositions(input, DOMAIN input) = {} => output[1] = FALSE

\* AS 2S 3S, KH KD KC, QH QD QS, 4C 5C 6C and 7D: four 3-melds, no 4-meld, no win
C24_Witness ==
  /\ output = <<FALSE>> /\ input = HandFourTriples
  /\ FourMeldPositions(input) = {}
  /\ \A A \in {{1, 2, 3}, {4, 5, 6}, {7, 8, 9}, {10, 11, 12}} : GroupIsMeld(input, A)

-----------------------------------------------------------------------------
(* The meld classifier on its own: isSet and isRun applied to one group *)

\* longest group the exploration enumerates in full
MaxGroupLen == 4

\* KS KH KD KC, AS 2S 3S, 10S JS QS
MeldTokens ==
  { Card(13, SPADE), Card(13, HEART), Card(13, DIAMOND), Card(13, CLUB),
    Card(1, SPADE), Card(2, SPADE), Card(3, SPADE),
    Card(10, SPADE), Card(11, SPADE), Card(12, SPADE) }

\* 10S JS QS KS AS, AS 2S 3S 4S 5S, QS KS AS 2S 3S, KS KH KD KC KS, 9S 10S JS QS KS
LongGroups ==
  { << Card(10, SPADE), Card(11, SPADE), Card(12, SPADE), Card(13, SPADE), Card(1, SPADE) >>,
    << Card(1, SPADE), Card(2, SPADE), Card(3, SPADE), Card(4, SPADE), Card(5, SPADE) >>,
    << Card(12, SPADE), Card(13, SPADE), Card(1, SPADE), Card(2, SPADE), Card(3, SPADE) >>,
    << Card(13, SPADE), Card(13, HEART), Card(13, DIAMOND), Card(13, CLUB), Card(13, SPADE) >>,
    << Card(9, SPADE), Card(10, SPADE), Card(11, SPADE), Card(12, SPADE), Card(13, SPADE) >> }

\* every group of 2 to MaxGroupLen tokens, in every order, repeated tokens
\* included (the two decks hold each token twice), and a few longer groups
IsMeldInput(group) ==
  \/ \E m \in 2..MaxGroupLen : \E g \in [1..m -> MeldTokens] : group = ArrayOf(g)
  \/ group \in LongGroups

\* what the win evaluator asks of a combination: parse its tokens, classify it
classifyGroup(group) ==
  LET parsedCombo == [i \in DOMAIN group |-> parseCard(group[i])]
  IN [set |-> isSet(parsedCombo), run |-> isRun(parsedCombo)]

\* the group with the cards at positions i and j exchanged
SwapAt(group, i, j) == [group EXCEPT ![i] = group[j], ![j] = group[i]]

InitMeld ==
  /\ IsMeldInput(input)
  /\ output = <<>>
  /\ players = <<>> /\ discardedCards = <<>> /\ deck = <<>> /\ currentPlayer = 0
  /\ draggedCardIndex = <<>> /\ winner = <<>> /\ canDeclare = FALSE
  /\ playersRef = <<>> /\ currentPlayerRef = 0
  /\ steps = 0
  /\ last = [op |-> "none", arg |-> NoArg, ok |-> FALSE]

ClassifyMeld ==
  /\ output = <<>>
  /\ output' = <<classifyGroup(input)>>
  /\ last' = [op |-> "classify", arg |-> NoArg, ok |-> TRUE]
  /\ UNCHANGED <<tableVars, steps, input>>

\* the same cards handed over in another order, and classified again
PermuteGroup ==
  /\ output # <<>>
  /\ \E i, j \in DOMAIN input :
       /\ i < j
       /\ input' = SwapAt(input, i, j)
       /\ output' = <<classifyGroup(input')>>
  /\ last' = [op |-> "permute", arg |-> NoArg, ok |-> TRUE]
  /\ UNCHANGED <<tableVars, steps>>

NextMeld == ClassifyMeld \/ PermuteGroup

SpecMeld == InitMeld /\ [][NextMeld]_vars

-----------------------------------------------------------------------------
(* Vocabulary of the properties of the meld classifier: the rules of sets and
   runs stated on tokens, by rank, suit and value *)

RankOf(tok) == CHOOSE r \in 1..13 : \E s \in {SPADE, HEART, DIAMOND, CLUB} : tok = Card(r, s)

SuitOf(tok) == CHOOSE s \in {SPADE, HEART, DIAMOND, CLUB} : \E r \in 1..13 : tok = Card(r, s)

RedPositions(group) == {i \in DOMAIN group : SuitOf(group[i]) \in {HEART, DIAMOND}}

AcePositions(group) == {i \in DOMAIN group : RankOf(group[i]) = 1}

OneRank(group) == \A i, j \in DOMAIN group : RankOf(group[i]) = RankOf(group[j])

OneSuit(group) == \A i, j \in DOMAIN group : SuitOf(group[i]) = SuitOf(group[j])

\* 3 cards split 2-1 or 1-2 between red and black, 4 cards split 2-2
SetRule(group) ==
  /\ Len(group) \in {3, 4}
  /\ OneRank(group)
  /\ \/ Len(group) = 3 /\ Cardinality(RedPositions(group)) \in {1, 2}
     \/ Len(group) = 4 /\ Cardinality(RedPositions(group)) = 2

\* the values A=1 .. K=13 are n different numbers that follow one another
ConsecutiveValues(group) ==
  LET vs == {RankOf(group[i]) : i \in DOMAIN group}
  IN /\ Cardinality(vs) = Len(group)
     /\ \A v, w \in vs : v - w < Len(group)

\* exactly one Ace, and the other n-1 cards are the n-1 ranks that end at K
AceHigh(group) ==
  /\ Cardinality(AcePositions(group)) = 1
  /\ {RankOf(group[i]) : i \in DOMAIN group \ AcePositions(group)} = (15 - Len(group))..13

RunRule(group) ==
  /\ Len(group) >= 3
  /\ OneSuit(group)
  /\ ConsecutiveValues(group) \/ AceHigh(group)

-----------------------------------------------------------------------------
\* C12: isSet is true exactly for 3 or 4 cards of one rank whose colours
\* split 2-1 or 1-2 (3 cards) or 2-2 (4 cards); a repeated suit does not
\* matter (KH KH KS is a set), one colour only does (KH KD KH is not).
C12_SetIsColourBalance ==
  output # <<>> => (output[1].set <=> SetRule(input))

\* KH KH KS, classified a set
C12_Witness ==
  /\ output # <<>> /\ output[1].set
  /\ input = << Card(13, HEART), Card(13, HEART), Card(13, SPADE) >>

\* C13: isRun is true exactly for at least 3 cards of one suit whose values
\* are consecutive without a duplicate, or which hold exactly one Ace next to
\* the top n-1 ranks ending at K; K-A-2 and Q-K-A-2 are no runs, and a group
\* with two Aces is no Ace-high run.
C13_RunRule ==
  output # <<>> =>
    /\ output[1].run <=> RunRule(input)
    /\ (Cardinality(AcePositions(input)) >= 2 => ~output[1].run)
    /\ ({RankOf(input[i]) : i \in DOMAIN input} \in {{13, 1, 2}, {12, 13, 1, 2}} => ~output[1].run)

\* J-Q-K-A of spades in some order, classified a run
C13_Witness ==
  /\ output # <<>> /\ output[1].run
  /\ Len(input) = 4 /\ AceHigh(input) /\ ~ConsecutiveValues(input)

\* C14: isSet and isRun give the same answers on a group of 3 or 4 cards and
\* on the same cards in another order.
C14_MeldsSymmetric ==
  [][(last'.op = "permute" /\ Len(input) \in {3, 4}) => output' = output]_vars

\* a run recognised after its cards were handed over out of order
C14_Witness ==
  /\ last.op = "permute" /\ output # <<>> /\ output[1].run
  /\ RankOf(input[1]) > RankOf(input[2])

-----------------------------------------------------------------------------
(* Dragging on its own: the player of the first turn draws and rearranges *)

\* player 1 is dealt 7H 2S 3S 4S 5S 10D 7S 8S 9S 3C JS QS KS:
\* one 4-meld (2-3-4-5), two 3-melds (7-8-9, J-Q-K), three unrelated cards
RandOneFour == randWith(19 :> 0 @@ 35 :> 5 @@ 41 :> 9)

\* as RandOneFour, with the unrelated cards 7H 7H 3C (both 7H of the two decks)
RandDupLeftover == randWith(19 :> 0 @@ 71 :> 5 @@ 41 :> 9)

DragShuffles == {RandSuited, RandNearWin, RandTwoAces, RandOneFour, RandDupLeftover}

DragDeals == {startGameDeal(rand) : rand \in DragShuffles}

\* drags to the hand container, to the first card, onto itself, forwards,
\* backwards, and of the card just drawn
DragGestures ==
  { [from |-> 0,  kind |-> "hand", to |-> 0, onSelf |-> FALSE],
    [from |-> 12, kind |-> "card", to |-> 0, onSelf |-> FALSE],
    [from |-> 0,  kind |-> "card", to |-> 0, onSelf |-> TRUE],
    [from |-> 2,  kind |-> "card", to |-> 7, onSelf |-> FALSE],
    [from |-> 10, kind |-> "card", to |-> 4, onSelf |-> FALSE],
    [from |-> 5,  kind |-> "card", to |-> 12, onSelf |-> FALSE],
    [from |-> 8,  kind |-> "card", to |-> 1, onSelf |-> FALSE],
    [from |-> 13, kind |-> "card", to |-> 1, onSelf |-> FALSE] }

\* input keeps the hand player 1 was dealt, output the evaluator's verdict on it
InitDrag ==
  /\ \E dealt \in DragDeals :
       /\ players = dealt.players
       /\ deck = dealt.deck
       /\ playersRef = dealt.players
       /\ canDeclare = canDeclareEffect(dealt.players, 0, <<>>)
       /\ input = dealt.players[1].cards
       /\ output = <<checkWinningCondition(dealt.players[1].cards)>>
  /\ discardedCards = <<>>
  /\ currentPlayer = 0
  /\ currentPlayerRef = 0
  /\ draggedCardIndex = <<>>
  /\ winner = <<>>
  /\ steps = 0
  /\ last = [op |-> "start", arg |-> NoArg, ok |-> TRUE]

DragCard == \E g \in DragGestures : reorderGesture(g)

NextDrag == DragCard \/ DrawCard

SpecDrag == InitDrag /\ [][NextDrag]_vars

\* number of cards of the hand that carry the token
CountOf(hand, tok) == Cardinality({i \in DOMAIN hand : hand[i] = tok})

SameTokens(handA, handB) ==
  /\ Len(handA) = Len(handB)
  /\ \A i \in DOMAIN handA : CountOf(handA, handA[i]) = CountOf(handB, handA[i])

-----------------------------------------------------------------------------
\* C11: checkWinningCondition gives the same result on a 13-card hand and on
\* every reordering of it that drags produce, duplicate tokens included, so
\* reordering changes neither whether declare nor whether skip is accepted.
C11_WinIsOrderIndependent ==
  (Len(ActiveHand) = 13 /\ NoWinner) =>
     /\ SameTokens(input, ActiveHand)
     /\ checkWinningCondition(ActiveHand) = output[1]
     /\ declareWinAccepted = output[1]
     /\ skipTurnAccepted = ~output[1]

\* a winning hand that holds a token twice, in another order than it was dealt
C11_Witness ==
  /\ last.op = "reorder" /\ last.ok
  /\ Len(ActiveHand) = 13 /\ ~Distinct(ActiveHand) /\ ActiveHand # input
  /\ checkWinningCondition(ActiveHand)

\* C16: an accepted reorder permutes the active hand (same length, same
\* tokens as many times each) and changes neither the deck, the discard log,
\* the turn pointer, the winner nor another player's hand.
C16_ReorderIsPermutation ==
  [][(last'.op = "reorder" /\ last'.ok) =>
        /\ Len(ActiveHand') = Len(ActiveHand)
        /\ \A i \in DOMAIN ActiveHand : CountOf(ActiveHand', ActiveHand[i]) = CountOf(ActiveHand, ActiveHand[i])
        /\ UNCHANGED <<deck, discardedCards, currentPlayer, winner>>
        /\ Len(players') = Len(players)
        /\ \A p \in DOMAIN players :
             /\ players'[p].id = players[p].id
             /\ p # currentPlayer + 1 => players'[p] = players[p]]_vars

\* the card just drawn, dragged from the end of a 14-card hand to its second place
C16_Witness ==
  /\ last.op = "reorder" /\ last.ok /\ last.arg.from = 13
  /\ Len(ActiveHand) = 14 /\ deck # <<>>
  /\ ActiveHand[2] # input[2]

-----------------------------------------------------------------------------
(* The deck builder on its own: createDeck applied to one player count *)

\* largest player count the exploration hands to createDeck
MaxPlayerCount == 4

\* indices of the shuffle loop: i runs from length - 1 down to 1
ShuffleIndices(n) == 1..(52 * numDecksFor(n) - 1)

\* values of Math.floor(Math.random() * (i + 1)), one per index i, each in 0..i:
\* no swap at all, always 0, always i - 1, always half of i, and one swap
\* of index i with index j for a few pairs
DeckRands(n) ==
  { [i \in ShuffleIndices(n) |-> i],
    [i \in ShuffleIndices(n) |-> 0],
    [i \in ShuffleIndices(n) |-> i - 1],
    [i \in ShuffleIndices(n) |-> i \div 2] }
  \cup { [i \in ShuffleIndices(n) |-> IF i = s[1] THEN s[2] ELSE i] :
           s \in {p \in {1, 13, 25, 51} \X {0, 1, 12, 13, 50} : p[2] < p[1]} }

InitDeck ==
  /\ \E n \in 0..MaxPlayerCount : \E rand \in DeckRands(n) :
       input = [numberOfPlayersForThisGame |-> n, rand |-> rand]
  /\ output = <<>>
  /\ players = <<>> /\ discardedCards = <<>> /\ deck = <<>> /\ currentPlayer = 0
  /\ draggedCardIndex = <<>> /\ winner = <<>> /\ canDeclare = FALSE
  /\ playersRef = <<>> /\ currentPlayerRef = 0
  /\ steps = 0
  /\ last = [op |-> "none", arg |-> NoArg, ok |-> FALSE]

BuildDeck ==
  /\ output = <<>>
  /\ output' = <<createDeck(input.numberOfPlayersForThisGame, input.rand)>>
  /\ last' = [op |-> "createDeck", arg |-> NoArg, ok |-> TRUE]
  /\ UNCHANGED <<tableVars, steps, input>>

NextDeck == BuildDeck

SpecDeck == InitDeck /\ [][NextDeck]_vars

\* the 52 tokens of one deck
CanonicalTokens == {Card(r, s) : r \in 1..13, s \in {SPADE, HEART, DIAMOND, CLUB}}

\* ceil(n / 2)
CeilHalf(n) == CHOOSE c \in 0..n : 2 * c >= n /\ 2 * c < n + 2

\* a deck of exactly `copies` cards of each of the 52 tokens and nothing else
IsDecks(d, copies) ==
  /\ Len(d) = 52 * copies
  /\ \A tok \in CanonicalTokens : CountOf(d, tok) = copies
  /\ \A i \in DOMAIN d : d[i] \in CanonicalTokens

-----------------------------------------------------------------------------
\* C17 (as stated): for every player count n the deck has 52 * ceil(n/2)
\* cards, ceil(n/2) of each of the 52 tokens, whatever the shuffle draws.
C17_DeckIsCeilHalfDecks ==
  output # <<>> => IsDecks(output[1], CeilHalf(input.numberOfPlayersForThisGame))

\* C17 (amended): the deck has 52 * max(1, ceil(n/2)) cards, max(1, ceil(n/2))
\* of each of the 52 tokens, whatever the shuffle draws: n = 0 builds one deck.
C17_DeckIsAtLeastOneDeck ==
  output # <<>> => IsDecks(output[1], Max(1, CeilHalf(input.numberOfPlayersForThisGame)))

\* two decks for 3 players, shuffled: KH has come to the front
C17_Witness ==
  /\ output # <<>> /\ input.numberOfPlayersForThisGame = 3
  /\ Len(output[1]) = 104 /\ output[1][1] = Card(13, HEART)

-----------------------------------------------------------------------------
(* The combination generator on its own: getCombinations applied to one array *)

\* longest array the exploration hands to getCombinations
MaxArrayLen == 4

CombItems == {"a", "b", "c", "d"}

\* every array of 0 to MaxArrayLen items, repeated items included
CombArrays == UNION {{ArrayOf(a) : a \in [1..n -> CombItems]} : n \in 0..MaxArrayLen}

InitComb ==
  /\ \E a \in CombArrays : \E k \in 0..(MaxArrayLen + 1) : input = [array |-> a, k |-> k]
  /\ output = <<>>
  /\ players = <<>> /\ discardedCards = <<>> /\ deck = <<>> /\ currentPlayer = 0
  /\ draggedCardIndex = <<>> /\ winner = <<>> /\ canDeclare = FALSE
  /\ playersRef = <<>> /\ currentPlayerRef = 0
  /\ steps = 0
  /\ last = [op |-> "none", arg |-> NoArg, ok |-> FALSE]

Combine ==
  /\ output = <<>>
  /\ output' = <<getCombinations(input.array, input.k)>>
  /\ last' = [op |-> "getCombinations", arg |-> NoArg, ok |-> TRUE]
  /\ UNCHANGED <<tableVars, steps, input>>

NextComb == Combine

SpecComb == InitComb /\ [][NextComb]_vars

\* the items of the array at the positions S, in the order of the array
Pick(array, S) ==
  LET pos == InPositionOrder(S)
  IN ArrayOf([i \in DOMAIN pos |-> array[pos[i]]])

\* the selections of k positions of an array of n items
Selections(n, k) == {S \in SUBSET (1..n) : Cardinality(S) = k}

\* C(n, k), by Pascal's rule
RECURSIVE Binomial(_, _)
Binomial(n, k) ==
  IF k < 0 \/ k > n THEN 0
  ELSE IF k = 0 \/ k = n THEN 1
  ELSE Binomial(n - 1, k - 1) + Binomial(n - 1, k)

-----------------------------------------------------------------------------
\* C20: getCombinations(array, k) returns, for every selection of k positions
\* of the array, the items at these positions in the order of the array, each
\* selection once: C(n, k) combinations in all, one empty combination for
\* k = 0 and none for k > n.
C20_EverySelectionOnce ==
  output # <<>> =>
    LET array == input.array
        k == input.k
        result == output[1]
        sel == Selections(Len(array), k)
    IN /\ Len(result) = Binomial(Len(array), k)
       /\ Len(result) = Cardinality(sel)
       /\ \A i \in DOMAIN result : \E S \in sel : result[i] = Pick(array, S)
       /\ \A S \in sel :
            Cardinality({i \in DOMAIN result : result[i] = Pick(array, S)})
              = Cardinality({T \in sel : Pick(array, T) = Pick(array, S)})
       /\ k = 0 => result = << <<>> >>
       /\ k > Len(array) => result = <<>>

\* the six pairs of a 4-item array that holds an item twice
C20_Witness ==
  /\ output # <<>> /\ input.k = 2 /\ Len(input.array) = 4
  /\ ~Distinct(input.array) /\ Len(output[1]) = 6

-----------------------------------------------------------------------------
(* The card model on its own: parseCard applied to one token of the deck *)

InitParse ==
  /\ input \in CanonicalTokens
  /\ output = <<>>
  /\ players = <<>> /\ discardedCards = <<>> /\ deck = <<>> /\ currentPlayer = 0
  /\ draggedCardIndex = <<>> /\ winner = <<>> /\ canDeclare = FALSE
  /\ playersRef = <<>> /\ currentPlayerRef = 0
  /\ steps = 0
  /\ last = [op |-> "none", arg |-> NoArg, ok |-> FALSE]

ParseToken ==
  /\ output = <<>>
  /\ output' = <<parseCard(input)>>
  /\ last' = [op |-> "parseCard", arg |-> NoArg, ok |-> TRUE]
  /\ UNCHANGED <<tableVars, steps, input>>

NextParse == ParseToken

SpecParse == InitParse /\ [][NextParse]_vars

\* the thirteen ranks with their values, as the rules of the game give them
RankValues ==
  { << <<"A">>, 1 >>, << <<"2">>, 2 >>, << <<"3">>, 3 >>, << <<"4">>, 4 >>, << <<"5">>, 5 >>,
    << <<"6">>, 6 >>, << <<"7">>, 7 >>, << <<"8">>, 8 >>, << <<"9">>, 9 >>,
    << <<"1", "0">>, 10 >>, << <<"J">>, 11 >>, << <<"Q">>, 12 >>, << <<"K">>, 13 >> }

-----------------------------------------------------------------------------
\* C22: parseCard gives a result for each of the 52 tokens, the rank 10
\* included; the parsed rank followed by the parsed suit is the token again,
\* the value is the rank's place in A = 1 .. K = 13, and the colour is red
\* exactly for hearts and diamonds.
C22_ParseRoundTrips ==
  output # <<>> =>
    LET c == output[1]
    IN /\ c.original = input
       /\ c.rank \o <<c.suit>> = input
       /\ c.suit \in {SPADE, HEART, DIAMOND, CLUB}
       /\ <<c.rank, c.value>> \in RankValues
       /\ c.color \in {"red", "black"}
       /\ c.color = "red" <=> c.suit \in {HEART, DIAMOND}

\* the ten of diamonds: a rank of two characters, value 10, red
C22_Witness ==
  /\ output # <<>> /\ Len(input) = 3 /\ input = <<"1", "0", DIAMOND>>
  /\ output[1].rank = <<"1", "0">> /\ output[1].value = 10 /\ output[1].color = "red"

-----------------------------------------------------------------------------
(* The handlers and the render apart.  A handler reads the values its closure
   holds (the state as last rendered) and the two refs, and queues state
   updates: setX(value) replaces the queued value, setX(prev => ...) is
   applied to it.  The next render makes the queued values the state, and the
   effects that follow it refresh the refs and the can-declare flag. *)

\* the state as last rendered, with no update queued
rendered ==
  [players |-> players, deck |-> deck, discardedCards |-> discardedCards,
   currentPlayer |-> currentPlayer, winner |-> winner, canDeclare |-> canDeclare,
   playersSet |-> FALSE]

\* drawCard: setDeck(prevDeck => prevDeck.slice(1)), setPlayers(updatedPlayers)
drawCardQueued(q) ==
  IF ~drawCardAccepted THEN q
  ELSE LET newCard == At(deck, 0)
           updatedPlayers ==
             [playersRef EXCEPT ![currentPlayerRef + 1].cards = Append(@, newCard)]
       IN [q EXCEPT !.deck = SliceFrom(@, 1),
                    !.players = updatedPlayers,
                    !.playersSet = TRUE]

\* discardCard: setPlayers(updatedPlayerList), setDiscardedCards(prev => [...prev, record]),
\* setCurrentPlayer(prev => (prev + 1) % updatedPlayerList.length)
discardCardQueued(q, cardIndexToDiscard) ==
  IF ~discardCardAccepted(cardIndexToDiscard) THEN q
  ELSE LET currentPlayerData == At(playersRef, currentPlayerRef)
           discardedItem == At(currentPlayerData.cards, cardIndexToDiscard)
           updatedPlayerList ==
             [playersRef EXCEPT ![currentPlayerRef + 1].cards = RemoveAt(@, cardIndexToDiscard)]
           playerAfterDiscard == At(updatedPlayerList, currentPlayerRef)
       IN [q EXCEPT !.players = updatedPlayerList,
                    !.playersSet = TRUE,
                    !.discardedCards =
                       Append(@, [playerId |-> currentPlayerData.id, card |-> discardedItem]),
                    !.currentPlayer =
                       IF discardAdvances(playerAfterDiscard.cards)
                         THEN (@ + 1) % Len(updatedPlayerList) ELSE @]

\* skipTurn: setCurrentPlayer(prevPlayerIdx => (prevPlayerIdx + 1) % latestPlayersArray.length)
skipTurnQueued(q) ==
  IF ~skipTurnAccepted THEN q
  ELSE [q EXCEPT !.currentPlayer = (@ + 1) % Len(playersRef)]

\* declareWin: setWinner(player), or setCanDeclare(false) when the hand does not win
declareWinQueued(q) ==
  IF winner # <<>> THEN q
  ELSE IF declareWinAccepted THEN [q EXCEPT !.winner = <<At(players, currentPlayer)>>]
  ELSE [q EXCEPT !.canDeclare = FALSE]

\* the render of the queued values q; the refs wait for the effects
renderQueued(q) ==
  /\ players' = q.players
  /\ deck' = q.deck
  /\ discardedCards' = q.discardedCards
  /\ currentPlayer' = q.currentPlayer
  /\ winner' = q.winner
  /\ canDeclare' = q.canDeclare
  /\ UNCHANGED <<playersRef, currentPlayerRef, draggedCardIndex>>

\* the effects the render of q triggers: effect 1 has the dependencies
\* [players, winner], effect 2 has [currentPlayer, winner]
effectsOf(q) ==
  [effect1 |-> q.playersSet \/ q.winner # winner,
   effect2 |-> q.currentPlayer # currentPlayer \/ q.winner # winner]

\* the two effects after a render, effect 1 before effect 2
runEffects(e) ==
  LET ref1 == IF e.effect1 THEN players ELSE playersRef
      cd1 == IF e.effect1 THEN canDeclareEffect(players, currentPlayerRef, winner)
                          ELSE canDeclare
  IN /\ playersRef' = ref1
     /\ currentPlayerRef' = IF e.effect2 THEN currentPlayer ELSE currentPlayerRef
     /\ canDeclare' = IF e.effect2 THEN canDeclareEffect(ref1, currentPlayer, winner) ELSE cd1
     /\ UNCHANGED <<players, deck, discardedCards, currentPlayer, winner, draggedCardIndex>>

\* a handler run to completion: its queued updates rendered and the effects run
runToCompletion(q) ==
  /\ deck' = q.deck
  /\ discardedCards' = q.discardedCards
  /\ UNCHANGED draggedCardIndex
  /\ Commit(q.players, q.currentPlayer, q.winner, q.canDeclare, q.playersSet)


-----------------------------------------------------------------------------
(* A game followed turn by turn: the accepted draws, discards and skips, each
   run to completion, with a count of the cards drawn in the turn *)

\* commands accepted per game that this exploration follows
MaxTurnSteps == 5

TurnShuffles == {RandNearWin, RandAlternating, RandSuited}

\* the first card of the hand, a card of its middle and the card just drawn
TurnDiscardIndices == {0, 5, 13}

\* input counts the cards the active player drew in this turn and says whether
\* a discard of this turn left a winning hand; output keeps the count of the
\* turn that ended last
turnHistory(op, q) ==
  LET draws == input.draws + (IF op = "draw" THEN 1 ELSE 0)
      passes == q.currentPlayer # currentPlayer
      leftWinning == /\ op = "discard"
                     /\ checkWinningCondition(q.players[currentPlayer + 1].cards)
  IN IF passes
       THEN /\ input' = [draws |-> 0, wonMidTurn |-> FALSE]
            /\ output' = <<[draws |-> draws, wonMidTurn |-> input.wonMidTurn]>>
       ELSE /\ input' = [draws |-> draws, wonMidTurn |-> input.wonMidTurn \/ leftWinning]
            /\ output' = output

InitTurn ==
  /\ \E rand \in TurnShuffles :
       LET dealt == startGameDeal(rand)
       IN /\ players = dealt.players
          /\ deck = dealt.deck
          /\ playersRef = dealt.players
          /\ canDeclare = canDeclareEffect(dealt.players, 0, <<>>)
  /\ discardedCards = <<>>
  /\ currentPlayer = 0
  /\ currentPlayerRef = 0
  /\ draggedCardIndex = <<>>
  /\ winner = <<>>
  /\ steps = 0
  /\ last = [op |-> "start", arg |-> NoArg, ok |-> TRUE]
  /\ input = [draws |-> 0, wonMidTurn |-> FALSE]
  /\ output = <<>>

turnCommand(op, arg, q) ==
  /\ steps < MaxTurnSteps
  /\ runToCompletion(q)
  /\ turnHistory(op, q)
  /\ steps' = steps + 1
  /\ last' = [op |-> op, arg |-> arg, ok |-> TRUE]

TurnDraw ==
  /\ drawCardAccepted
  /\ turnCommand("draw", NoArg, drawCardQueued(rendered))

TurnDiscard ==
  \E cardIndexToDiscard \in TurnDiscardIndices :
    /\ discardCardAccepted(cardIndexToDiscard)
    /\ turnCommand("discard", IndexArg(cardIndexToDiscard),
                   discardCardQueued(rendered, cardIndexToDiscard))

TurnSkip ==
  /\ skipTurnAccepted
  /\ turnCommand("skip", NoArg, skipTurnQueued(rendered))

NextTurn == TurnDraw \/ TurnDiscard \/ TurnSkip

SpecTurn == InitTurn /\ [][NextTurn]_vars

-----------------------------------------------------------------------------
\* C29: when the turn passes to the next player, the player whose turn ended
\* holds exactly 13 cards that do not satisfy checkWinningCondition, and drew
\* at most one card in that turn unless a discard of that turn left a
\* winning hand.
C29_TurnEndsOnThirteen ==
  [][currentPlayer' # currentPlayer =>
       LET ended == IF last'.op = "discard"
                      THEN RemoveAt(ActiveHand, last'.arg.from) ELSE ActiveHand
       IN /\ currentPlayer' = NextPlayerIndex
          /\ players'[currentPlayer + 1].cards = ended
          /\ Len(ended) = 13
          /\ ~checkWinningCondition(ended)
          /\ output' # <<>>
          /\ output'[1].draws <= 1 \/ output'[1].wonMidTurn]_vars

\* the first player drew, discarded into a winning hand, drew again and
\* discarded a card of a meld: the turn passed after two draws
C29_Witness ==
  /\ currentPlayer = 1 /\ last.op = "discard"
  /\ output = <<[draws |-> 2, wonMidTurn |-> TRUE]>>
  /\ Len(discardedCards) = 2
  /\ Len(players[1].cards) = 13 /\ ~checkWinningCondition(players[1].cards)


-----------------------------------------------------------------------------
(* Commands invoked one on the heels of the other: a handler may run before
   the render of the updates queued by the handler before it, or after that
   render and before its effects.  output holds the updates queued since the
   last render (<<>> when there are none), input the effects of the last
   render that have not run yet (<<>> when there are none). *)

\* handlers invoked per game that this exploration follows
MaxInvocations == 2

StaleShuffles == {RandNearWin, RandAlternating, RandSuited}

StaleDiscardIndices == {0, 13}

InitStale ==
  /\ \E rand \in StaleShuffles :
       LET dealt == startGameDeal(rand)
       IN /\ players = dealt.players
          /\ deck = dealt.deck
          /\ playersRef = dealt.players
          /\ canDeclare = canDeclareEffect(dealt.players, 0, <<>>)
  /\ discardedCards = <<>>
  /\ currentPlayer = 0
  /\ currentPlayerRef = 0
  /\ draggedCardIndex = <<>>
  /\ winner = <<>>
  /\ steps = 0
  /\ last = [op |-> "start", arg |-> NoArg, ok |-> TRUE]
  /\ input = <<>>
  /\ output = <<>>

\* the values the next render will show: the queued ones, else the rendered ones
queuedUpdates == IF output = <<>> THEN rendered ELSE output[1]

\* a handler runs: its updates join the queue, nothing is rendered yet
invoke(op, arg, ok, q) ==
  /\ steps < MaxInvocations
  /\ output' = IF output = <<>> /\ q = rendered THEN <<>> ELSE <<q>>
  /\ steps' = steps + 1
  /\ last' = [op |-> op, arg |-> arg, ok |-> ok]
  /\ UNCHANGED <<tableVars, input>>

InvokeDraw == invoke("draw", NoArg, drawCardAccepted, drawCardQueued(queuedUpdates))

InvokeDiscard ==
  \E cardIndexToDiscard \in StaleDiscardIndices :
    invoke("discard", IndexArg(cardIndexToDiscard), discardCardAccepted(cardIndexToDiscard),
           discardCardQueued(queuedUpdates, cardIndexToDiscard))

InvokeSkip == invoke("skip", NoArg, skipTurnAccepted, skipTurnQueued(queuedUpdates))

InvokeDeclare == invoke("declare", NoArg, declareWinAccepted, declareWinQueued(queuedUpdates))

\* the render of the queued updates; the effects of the render before it have run
Render ==
  /\ output # <<>>
  /\ input = <<>>
  /\ renderQueued(output[1])
  /\ input' = <<effectsOf(output[1])>>
  /\ output' = <<>>
  /\ UNCHANGED <<steps, last>>

\* the effects of the last render
Effects ==
  /\ input # <<>>
  /\ runEffects(input[1])
  /\ input' = <<>>
  /\ UNCHANGED <<output, steps, last>>

NextStale == InvokeDraw \/ InvokeDiscard \/ InvokeSkip \/ InvokeDeclare \/ Render \/ Effects

SpecStale == InitStale /\ [][NextStale]_vars

\* every queued update is rendered and every effect has run
Settled == output = <<>> /\ input = <<>>

-----------------------------------------------------------------------------
\* C30 (as stated): a command invoked before the render and the effects of
\* the command before it acts as if it had been invoked after them: once
\* everything is rendered no card is lost or duplicated (deck, hands and log
\* hold each of the 52 tokens twice), and no hand holds more than 14 cards.
C30_NoStaleState ==
  Settled =>
    /\ Len(TableCards) = 104
    /\ \A v \in 1..13, u \in 1..4 : Copies(TableCards, token(values[v], suits[u])) = 2
    /\ Len(deck) + Len(discardedCards) + (IF Len(ActiveHand) = 14 THEN 1 ELSE 0) = 52
    /\ \A p \in DOMAIN players : Len(players[p].cards) <= MAX_CARDS_PER_PLAYER_LOGIC

=============================================================================
